---------------------------- MODULE Spec2Model ----------------------------
(***************************************************************************)
(* A model of the calendar assistant of src/calendar_agent.py:             *)
(*   - TherapyAppointmentAutomation.block_multiple_times, the browser      *)
(*     workflow (specification Spec);                                      *)
(*   - CalendarSyncAgent.chat and its tool operations (SpecAgent);         *)
(*   - the two calendar adapters' get_events (SpecAdapters);               *)
(*   - CalendarSyncAgent.sync_outlook_to_google (SpecSync).                *)
(* Each specification moves only the variables of its own component; the   *)
(* other components stay in their idle state.                              *)
(***************************************************************************)
EXTENDS Integers, Sequences, FiniteSets, TLC

VARIABLES
    \* ---- block_multiple_times (calendar_agent.py 611-662)
    events,          \* the argument: the list of events to block
    pc,              \* position in block_multiple_times
    i,               \* the loop index of enumerate(events, 1)
    blocked_count,   \* the local blocked_count
    browser,         \* "none" | "open" | "closed"
    closeCount,      \* number of browser.close() calls
    outcome,         \* "none" | "returned" | "raised"
    result,          \* the returned count
    errSrc,          \* where the exception that reached line 657 came from
    trace,           \* the page interactions so far, in order
    \* ---- CalendarSyncAgent.chat and its tools (calendar_agent.py 71-368)
    conversation_history,  \* the roles of the messages appended so far
    agPc,                  \* "idle" | "tools" | "final"
    tool_calls,            \* the tool calls of the response still to execute
    therapy_appointment,   \* "None" | "created" (self.therapy_appointment)
    siteBatches,           \* the batches block_multiple_times was started on
    lastResult,            \* the result of the last tool executed
    \* ---- OutlookCalendarService.get_events (calendar_agent.py 494-594)
    olRaw,           \* the events the provider holds in the window
    olCache,         \* outlook_token_cache.json holds an access token
    olToken,         \* self.token: the number of the token in use
    olPc,            \* "idle" | "request" | "reauth" | "done"
    olRequests,      \* listing requests made by the current call
    olReauths,       \* _get_token calls made by the current call
    olOutcome,       \* "none" | "returned" | "raised"
    olReturned,      \* the list returned
    \* ---- GoogleCalendarService.get_events (calendar_agent.py 406-439)
    ggRaw,           \* the items of the provider's response
    ggOutcome,       \* "none" | "returned"
    ggReturned,      \* the list returned
    \* ---- CalendarSyncAgent.sync_outlook_to_google (calendar_agent.py 298-368)
    outlook_events,     \* what outlook_calendar.get_events returns
    google_events,      \* what google_calendar.get_events returns
    google_signatures,  \* the set of signatures
    added_count,
    skipped_count,
    syPc,               \* "start" | "fetch_google" | "loop" | "done"
    syIdx,              \* index of the next outlook event
    inserts,            \* the add_event calls so far: [idx, ok]
    skipped,            \* the indices of the events skipped as duplicates
    syResult,           \* the dictionary returned
    \* ---- a second run of sync_outlook_to_google on the same Outlook data
    syRun,              \* 1 | 2: which run this is
    calOff,             \* the UTC offset events.list writes start times in
    firstRun,           \* the first run: its add_event calls, its result
    \* ---- the Approval Gate (spec section 4.3)
    gateState,          \* "Idle" | "AwaitingSelection"
    pending,            \* the stored batches
    batchNo,            \* the number of requestApproval calls
    consumed,           \* the numbers of the batches a resolve has consumed
    selection,          \* the last resolve: its batch, text, result
    \* ---- the Streamlit script (streamlit_app.py)
    cfg,                \* which credentials are present
    authOk,             \* whether signing in to a provider succeeds
    agent,              \* st.session_state.agent: "unset" | "None" | "ready"
    messages,           \* st.session_state.messages
    awaiting_selection, \* st.session_state.awaiting_selection
    show_welcome,       \* st.session_state.show_welcome
    \* ---- _block_time_slot and _navigate_calendar (calendar_agent.py 695-776)
    slEvent,            \* the event argument
    slPc,               \* position in _block_time_slot
    slOps,              \* the interactions sent to the site, in order
    slTwin,             \* the same for the event with another title
    display,            \* the month the datepicker shows: [year, month]
    origin,             \* the month it showed when #event_date was opened
    widget,             \* how the datepicker behaves, cells before day 1
    attempts,           \* iterations of the loop of _navigate_calendar
    clicks,             \* next/prev clicks made
    dayClicked,         \* the day cell clicked
    slOutcome           \* "none" | "true" | "false" | "raised"

blockVars == <<events, pc, i, blocked_count, browser, closeCount, outcome,
               result, errSrc, trace>>

agentVars == <<conversation_history, agPc, tool_calls, therapy_appointment,
               siteBatches, lastResult>>

outlookVars == <<olRaw, olCache, olToken, olPc, olRequests, olReauths,
                 olOutcome, olReturned>>

googleVars == <<ggRaw, ggOutcome, ggReturned>>

syncVars == <<outlook_events, google_events, google_signatures, added_count,
              skipped_count, syPc, syIdx, inserts, skipped, syResult>>

rerunVars == <<syRun, calOff, firstRun>>

gateVars == <<gateState, pending, batchNo, consumed, selection>>

uiVars == <<cfg, authOk, agent, messages, awaiting_selection, show_welcome>>

slotVars == <<slEvent, slPc, slOps, slTwin, display, origin, widget, attempts,
              clicks, dayClicked, slOutcome>>

\* the components that no operation of the agent's own classes moves
extraVars == <<rerunVars, gateVars, uiVars, slotVars>>

vars == <<blockVars, agentVars, outlookVars, googleVars, syncVars, extraVars>>

-----------------------------------------------------------------------------
(* Bounds *)

MaxEvents == 3

MaxChats == 1

MaxToolCalls == 2

MaxFetched == 2

MaxRaw == 2

MaxRequests == 4

MaxOutlook == 2

MaxGoogle == 1

-----------------------------------------------------------------------------
(* Events handed to the browser workflow.  `valid` tells whether           *)
(* datetime.fromisoformat accepts the event's start and end texts.         *)

Summaries == {"Intake"}

BlockEvent == [summary : Summaries, valid : BOOLEAN]

SeqsUpTo(S, n) == UNION {[1..k -> S] : k \in 0..n}

Entry(op, idx, res) == [op |-> op, idx |-> idx, res |-> res]

\* page.screenshot(...): the screenshot is taken (TRUE) or raises (FALSE)
Shot(ok) == Entry("shot", 0, IF ok THEN "ok" ELSE "fail")

-----------------------------------------------------------------------------
(* The state of each component before it is called.                        *)

NoResult == [tool |-> "none", success |-> FALSE, message |-> FALSE,
             raised |-> FALSE, cause |-> "none", listed |-> -1,
             events_synced |-> -1, events_skipped |-> -1, total_events |-> -1]

IdleBlock ==
    /\ events = <<>>
    /\ pc = "idle"
    /\ i = 0
    /\ blocked_count = 0
    /\ browser = "none"
    /\ closeCount = 0
    /\ outcome = "none"
    /\ result = -1
    /\ errSrc = "none"
    /\ trace = <<>>

IdleAgent ==
    /\ conversation_history = <<"system">>
    /\ agPc = "idle"
    /\ tool_calls = <<>>
    /\ therapy_appointment = "None"
    /\ siteBatches = <<>>
    /\ lastResult = NoResult

IdleOutlook ==
    /\ olRaw = <<>>
    /\ olCache = TRUE
    /\ olToken = 0
    /\ olPc = "idle"
    /\ olRequests = 0
    /\ olReauths = 0
    /\ olOutcome = "none"
    /\ olReturned = <<>>

IdleGoogle ==
    /\ ggRaw = <<>>
    /\ ggOutcome = "none"
    /\ ggReturned = <<>>

IdleSync ==
    /\ outlook_events = <<>>
    /\ google_events = <<>>
    /\ google_signatures = {}
    /\ added_count = 0
    /\ skipped_count = 0
    /\ syPc = "idle"
    /\ syIdx = 1
    /\ inserts = <<>>
    /\ skipped = {}
    /\ syResult = NoResult

IdleRerun ==
    /\ syRun = 1
    /\ calOff = 0
    /\ firstRun = [calls |-> <<>>, result |-> NoResult]

NoSelection == [from |-> <<>>, text |-> <<>>, selected |-> <<>>, raised |-> FALSE,
                again |-> FALSE]

IdleGate ==
    /\ gateState = "Idle"
    /\ pending = <<>>
    /\ batchNo = 0
    /\ consumed = {}
    /\ selection = NoSelection

IdleUI ==
    /\ cfg = [outlook |-> TRUE, google |-> TRUE, therapy |-> TRUE]
    /\ authOk = [outlook |-> TRUE, google |-> TRUE]
    /\ agent = "unset"
    /\ messages = <<>>
    /\ awaiting_selection = FALSE
    /\ show_welcome = TRUE

NoEvent == [summary |-> "", valid |-> FALSE, year |-> 0, month |-> 0, day |-> 0,
            startMin |-> 0, endMin |-> 0]

NoLabel == [year |-> 0, month |-> 0]

NoCell == [text |-> 0, cls |-> "none"]

IdleSlot ==
    /\ slEvent = NoEvent
    /\ slPc = "idle"
    /\ slOps = <<>>
    /\ slTwin = <<>>
    /\ display = NoLabel
    /\ origin = NoLabel
    /\ widget = [mode |-> "faithful", lead |-> 0]
    /\ attempts = 0
    /\ clicks = 0
    /\ dayClicked = NoCell
    /\ slOutcome = "none"

IdleExtra == IdleRerun /\ IdleGate /\ IdleUI /\ IdleSlot

-----------------------------------------------------------------------------
(* TherapyAppointmentAutomation.block_multiple_times                        *)

notBlock == <<agentVars, outlookVars, googleVars, syncVars, extraVars>>

Attempts == SelectSeq(trace, LAMBDA e : e.op = "block")

Blocked == SelectSeq(trace, LAMBDA e : e.op = "block" /\ e.res = "true")

\* _login (664-677): page.goto is outside the try, the form steps inside it;
\* a failure of the form steps takes a screenshot and re-raises.
LoginTrace(r, s) ==
    CASE r = "ok"        -> <<Entry("login", 0, "ok")>>
      [] r = "goto_fail" -> <<Entry("login", 0, "fail")>>
      [] r = "form_fail" -> <<Entry("login", 0, "fail"), Shot(s)>>

\* _navigate_to_availability (679-693): a failure takes a screenshot and
\* re-raises.
NavTrace(ok, s) ==
    IF ok THEN <<Entry("nav", 0, "ok")>>
          ELSE <<Entry("nav", 0, "fail"), Shot(s)>>

\* lines 614-622: the browser, its context and its page
LaunchBrowser ==
    /\ pc = "start"
    /\ browser' = "open"
    /\ pc' = "login"
    /\ UNCHANGED <<events, i, blocked_count, closeCount, outcome, result,
                   errSrc, trace>>
    /\ UNCHANGED notBlock

LoginSwallowsFailure ==
    /\ pc = "login"
    /\ \E r \in {"ok", "goto_fail", "form_fail"}, s \in BOOLEAN :
         /\ trace' = trace \o LoginTrace(r, s)
         /\ pc' = "nav0"
         /\ errSrc' = errSrc
    /\ UNCHANGED <<events, i, blocked_count, browser, closeCount, outcome,
                   result>>
    /\ UNCHANGED notBlock

\* line 626: await self._login(page)
Login ==
    /\ pc = "login"
    /\ \E r \in {"ok", "goto_fail", "form_fail"}, s \in BOOLEAN :
         /\ trace' = trace \o LoginTrace(r, s)
         /\ pc' = IF r = "ok" THEN "nav0" ELSE "critical"
         /\ errSrc' = IF r = "ok" THEN errSrc ELSE "login"
    /\ UNCHANGED <<events, i, blocked_count, browser, closeCount, outcome,
                   result>>
    /\ UNCHANGED notBlock

\* lines 629-631: the initial navigation, then blocked_count = 0
InitialNavigate ==
    /\ pc = "nav0"
    /\ \E ok \in BOOLEAN, s \in BOOLEAN :
         /\ trace' = trace \o NavTrace(ok, s)
         /\ pc' = IF ok THEN "loop" ELSE "critical"
         /\ errSrc' = IF ok THEN errSrc ELSE "navigation"
         /\ blocked_count' = IF ok THEN 0 ELSE blocked_count
         /\ i' = IF ok THEN 1 ELSE i
    /\ UNCHANGED <<events, browser, closeCount, outcome, result>>
    /\ UNCHANGED notBlock

\* line 633: the for loop takes the next event, or ends
LoopHead ==
    /\ pc = "loop"
    /\ pc' = IF i > Len(events) THEN "finish" ELSE "block"
    /\ UNCHANGED <<events, i, blocked_count, browser, closeCount, outcome,
                   result, errSrc, trace>>
    /\ UNCHANGED notBlock

BlockTimeSlotCountsFailures ==
    /\ pc = "block"
    /\ IF ~events[i].valid
         THEN /\ trace' = Append(trace, Entry("block", i, "raised"))
              /\ pc' = "evt_except"
              /\ UNCHANGED blocked_count
         ELSE \E r \in {"true", "false"}, s \in BOOLEAN :
                CASE r = "true" ->
                       /\ trace' = Append(trace, Entry("block", i, "true"))
                       /\ blocked_count' = blocked_count + 1
                       /\ pc' = "renav"
                  [] r = "false" /\ s ->
                       /\ trace' = trace \o <<Entry("block", i, "false"), Shot(TRUE)>>
                       /\ blocked_count' = blocked_count + 1
                       /\ pc' = "renav"
                  [] r = "false" /\ ~s ->
                       /\ trace' = trace \o <<Entry("block", i, "raised"), Shot(FALSE)>>
                       /\ UNCHANGED blocked_count
                       /\ pc' = "evt_except"
    /\ UNCHANGED <<events, i, browser, closeCount, outcome, result, errSrc>>
    /\ UNCHANGED notBlock

\* lines 635-642 with _block_time_slot (695-749): the two fromisoformat calls
\* are outside the try of _block_time_slot, so an unparsable time raises; an
\* interaction error inside it takes a screenshot and returns False, and
\* raises when that screenshot fails.
BlockTimeSlot ==
    /\ pc = "block"
    /\ IF ~events[i].valid
         THEN /\ trace' = Append(trace, Entry("block", i, "raised"))
              /\ pc' = "evt_except"
              /\ UNCHANGED blocked_count
         ELSE \E r \in {"true", "false"}, s \in BOOLEAN :
                CASE r = "true" ->
                       /\ trace' = Append(trace, Entry("block", i, "true"))
                       /\ blocked_count' = blocked_count + 1
                       /\ pc' = "renav"
                  [] r = "false" /\ s ->
                       /\ trace' = trace \o <<Entry("block", i, "false"), Shot(TRUE)>>
                       /\ UNCHANGED blocked_count
                       /\ pc' = "renav"
                  [] r = "false" /\ ~s ->
                       /\ trace' = trace \o <<Entry("block", i, "raised"), Shot(FALSE)>>
                       /\ UNCHANGED blocked_count
                       /\ pc' = "evt_except"
    /\ UNCHANGED <<events, i, browser, closeCount, outcome, result, errSrc>>
    /\ UNCHANGED notBlock

\* lines 644-645: back to the schedule view; a failure raises inside the
\* per-event try
ReturnToCalendar ==
    /\ pc = "renav"
    /\ \E ok \in BOOLEAN, s \in BOOLEAN :
         /\ trace' = trace \o NavTrace(ok, s)
         /\ pc' = IF ok THEN "loop" ELSE "evt_except"
         /\ i' = IF ok THEN i + 1 ELSE i
    /\ UNCHANGED <<events, blocked_count, browser, closeCount, outcome,
                   result, errSrc>>
    /\ UNCHANGED notBlock

\* lines 647-650: the per-event handler: a screenshot, then continue; the
\* screenshot is not protected, so its failure leaves the loop
EventExcept ==
    /\ pc = "evt_except"
    /\ \E s \in BOOLEAN :
         /\ trace' = Append(trace, Shot(s))
         /\ pc' = IF s THEN "loop" ELSE "critical"
         /\ i' = IF s THEN i + 1 ELSE i
         /\ errSrc' = IF s THEN errSrc ELSE "event"
    /\ UNCHANGED <<events, blocked_count, browser, closeCount, outcome,
                   result>>
    /\ UNCHANGED notBlock

\* lines 652-655: return blocked_count
Finish ==
    /\ pc = "finish"
    /\ result' = blocked_count
    /\ outcome' = "returned"
    /\ pc' = "finally"
    /\ UNCHANGED <<events, i, blocked_count, browser, closeCount, errSrc,
                   trace>>
    /\ UNCHANGED notBlock

\* lines 657-660: the outer handler: a screenshot, then raise (a failing
\* screenshot raises as well)
Critical ==
    /\ pc = "critical"
    /\ \E s \in BOOLEAN : trace' = Append(trace, Shot(s))
    /\ outcome' = "raised"
    /\ pc' = "finally"
    /\ UNCHANGED <<events, i, blocked_count, browser, closeCount, result,
                   errSrc>>
    /\ UNCHANGED notBlock

CloseBrowserOnReturnOnly ==
    /\ pc = "finally"
    /\ browser' = IF outcome = "returned" THEN "closed" ELSE browser
    /\ closeCount' = IF outcome = "returned" THEN closeCount + 1 ELSE closeCount
    /\ pc' = "done"
    /\ UNCHANGED <<events, i, blocked_count, outcome, result, errSrc, trace>>
    /\ UNCHANGED notBlock

\* lines 661-662: finally: await browser.close()
CloseBrowser ==
    /\ pc = "finally"
    /\ browser' = "closed"
    /\ closeCount' = closeCount + 1
    /\ pc' = "done"
    /\ UNCHANGED <<events, i, blocked_count, outcome, result, errSrc, trace>>
    /\ UNCHANGED notBlock

\* block_multiple_times is called with a list of events
Init ==
    /\ events \in SeqsUpTo(BlockEvent, MaxEvents)
    /\ pc = "start"
    /\ i = 0
    /\ blocked_count = 0
    /\ browser = "none"
    /\ closeCount = 0
    /\ outcome = "none"
    /\ result = -1
    /\ errSrc = "none"
    /\ trace = <<>>
    /\ IdleAgent /\ IdleOutlook /\ IdleGoogle /\ IdleSync /\ IdleExtra

Next ==
    \/ LaunchBrowser
    \/ Login
    \/ InitialNavigate
    \/ LoopHead
    \/ BlockTimeSlot
    \/ ReturnToCalendar
    \/ EventExcept
    \/ Finish
    \/ Critical
    \/ CloseBrowser

Spec == Init /\ [][Next]_vars

-----------------------------------------------------------------------------
(* Claims about block_multiple_times, checked under Spec                    *)

LoginEntries == SelectSeq(trace, LAMBDA e : e.op = "login")

NavEntries == SelectSeq(trace, LAMBDA e : e.op = "nav")

LoginFailed == \E k \in 1..Len(trace) : trace[k] = Entry("login", 0, "fail")

LoginSucceeded == \E k \in 1..Len(trace) : trace[k] = Entry("login", 0, "ok")

\* the navigation of line 629 is the first one of the run
InitialNavFailed == Len(NavEntries) > 0 /\ NavEntries[1].res = "fail"

InitialNavSucceeded == Len(NavEntries) > 0 /\ NavEntries[1].res = "ok"

\* event k was attempted and its blocking sequence did not return True
EventFailed(k) ==
    \E n \in 1..Len(trace) :
        trace[n].op = "block" /\ trace[n].idx = k /\ trace[n].res # "true"

\* C1: whatever the event list and whatever fails (login, navigation, an
\* event, a screenshot), the launched browser is closed exactly once before
\* block_multiple_times returns or raises: it is open and unclosed while the
\* call runs, and closed with one close() call when the call has ended.
BrowserClosedExactlyOnce ==
    /\ closeCount <= 1
    /\ pc \in {"login", "nav0", "loop", "block", "renav", "evt_except",
               "finish", "critical", "finally"}
          => browser = "open" /\ closeCount = 0
    /\ pc = "done"
          => browser = "closed" /\ closeCount = 1
             /\ outcome \in {"returned", "raised"}

\* a run that ended by raising out of the per-event handler, browser closed
BrowserClosedAfterEventHandlerFailure ==
    /\ pc = "done"
    /\ outcome = "raised"
    /\ errSrc = "event"
    /\ closeCount = 1

\* C3: when block_multiple_times returns normally the returned count is the
\* number of events whose blocking sequence returned True; with exactly one
\* failed event (a False outcome or an exception) it is N-1; and at every
\* point 0 <= blocked_count <= events attempted <= N.
CountEqualsSuccesses ==
    /\ 0 <= blocked_count
    /\ blocked_count <= Len(Attempts)
    /\ Len(Attempts) <= Len(events)
    /\ (outcome = "returned")
          => /\ result = Len(Blocked)
             /\ result = Cardinality({k \in 1..Len(events) : ~EventFailed(k)})
             /\ Cardinality({k \in 1..Len(events) : EventFailed(k)}) = 1
                   => result = Len(events) - 1

\* three events, the second with an unparsable time: the call returns 2
OneInvalidEventOfThree ==
    /\ pc = "done"
    /\ outcome = "returned"
    /\ Len(events) = 3
    /\ ~events[2].valid
    /\ Cardinality({k \in 1..Len(events) : EventFailed(k)}) = 1
    /\ result = 2

\* C4: once login and the initial navigation have succeeded every event of
\* the batch is attempted exactly once, in input order: when the call has
\* ended, the attempts are the events 1..N in that order.
EveryEventAttemptedOnceInOrder ==
    (pc = "done" /\ LoginSucceeded /\ InitialNavSucceeded)
        => [k \in 1..Len(Attempts) |-> Attempts[k].idx]
              = [k \in 1..Len(events) |-> k]

\* C5: block_multiple_times raises only when login or the initial
\* navigation failed, never because of what happens while an event is
\* processed.
RaisesOnlyForLoginOrNavigation ==
    outcome = "raised" => LoginFailed \/ InitialNavFailed

\* C6: when login or the initial navigation fails, login is not retried, no
\* event's blocking sequence is started, the workflow goes to its error
\* exit, the error is raised and the browser is closed.
FatalFailureAborts ==
    (LoginFailed \/ InitialNavFailed)
        => /\ Len(LoginEntries) = 1
           /\ Len(Attempts) = 0
           /\ Len(NavEntries) <= 1
           /\ pc \in {"critical", "finally", "done"}
           /\ pc = "finally" => outcome = "raised"
           /\ pc = "done" => outcome = "raised" /\ browser = "closed"

\* login failed on a non-empty batch and the call has raised
LoginFailureRaised ==
    /\ pc = "done"
    /\ LoginFailed
    /\ Len(events) > 0
    /\ outcome = "raised"
    /\ browser = "closed"

\* C7: between any two consecutive event attempts a navigation to the
\* schedule view has been performed and has succeeded.
ScheduleViewReenteredBetweenEvents ==
    \A a, b \in 1..Len(trace) :
        (a < b /\ trace[a].op = "block" /\ trace[b].op = "block")
            => \E n \in (a + 1)..(b - 1) : trace[n] = Entry("nav", 0, "ok")

-----------------------------------------------------------------------------
(* CalendarSyncAgent.chat and the tool operations it dispatches to          *)

notAgent == <<blockVars, outlookVars, googleVars, syncVars, extraVars>>

\* the names an LLM response can put in a tool call: the four tools offered
\* (lines 81-150) and any other name
FunctionNames == {"sync_calendars", "get_upcoming_events", "get_outlook_events",
                  "sync_outlook_to_google", "other"}

\* what google_calendar.get_events hands to sync_calendars: n events
FetchedList(n) == [k \in 1..n |-> [summary |-> "Intake", valid |-> TRUE]]

UserTurns == Len(SelectSeq(conversation_history, LAMBDA r : r = "user"))

SyncTools == {"sync_calendars", "sync_outlook_to_google"}

\* a result dictionary of a tool; -1 stands for a key that is absent.  The
\* success dictionaries of the two sync tools carry a 'message' (lines
\* 211-214, 224-228, 307-311, 352-357), those of the two listing tools do
\* not (lines 253-259, 283-289).  cause: what failed, "none" if nothing;
\* listed: how many events the listing returned, -1 when not recorded
ToolResult(name, ok, synced, skip, total) ==
    [tool |-> name, success |-> ok, message |-> name \in SyncTools,
     raised |-> FALSE, cause |-> "none", listed |-> -1,
     events_synced |-> synced, events_skipped |-> skip, total_events |-> total]

\* the exception leaves the tool
FailureRaises(name, cause) ==
    [tool |-> name, success |-> FALSE, message |-> FALSE, raised |-> TRUE,
     cause |-> cause, listed |-> -1, events_synced |-> -1,
     events_skipped |-> -1, total_events |-> -1]

\* the except Exception branch of a tool (lines 230-235, 260-266, 290-296,
\* 360-368): success False and a message, events_synced 0 in the sync tools
Failure(name, cause) ==
    [tool |-> name, success |-> FALSE, message |-> TRUE, raised |-> FALSE,
     cause |-> cause, listed |-> -1,
     events_synced |-> IF name \in SyncTools THEN 0 ELSE -1,
     events_skipped |-> -1, total_events |-> -1]

\* the listing is passed on whatever its length
HasEventsAlways(n) == TRUE

\* lines 208 and 306: "if not events" returns early on an empty listing
HasEvents(n) == n > 0

\* lines 75-78, 153-160, 192-199: the user message is appended and the LLM is
\* asked; its response carries tool calls, or is the answer
ChatBegin ==
    /\ agPc = "idle"
    /\ UserTurns < MaxChats
    /\ \E calls \in SeqsUpTo(FunctionNames, MaxToolCalls) :
         IF calls = <<>>
           THEN /\ conversation_history' = conversation_history \o <<"user", "assistant">>
                /\ UNCHANGED <<agPc, tool_calls>>
           ELSE /\ conversation_history' = Append(conversation_history, "user")
                /\ agPc' = "tools"
                /\ tool_calls' = calls
    /\ UNCHANGED <<therapy_appointment, siteBatches, lastResult>>
    /\ UNCHANGED notAgent

\* lines 180-184: the result is appended as a tool message
ToolDone(res) ==
    /\ lastResult' = res
    /\ conversation_history' = Append(conversation_history, "tool")
    /\ tool_calls' = Tail(tool_calls)
    /\ UNCHANGED agPc

\* lines 169-170 with sync_calendars (203-235): the events fetched from
\* Google go straight to block_multiple_times; any exception becomes a
\* failure result.  The workflow's outcome (a count, or an exception) is one
\* of those of block_multiple_times.
ExecSyncCalendars ==
    /\ agPc = "tools" /\ tool_calls # <<>>
    /\ Head(tool_calls) = "sync_calendars"
    /\ \E fetchOk \in BOOLEAN, n \in 0..MaxFetched, creds \in BOOLEAN,
          raises \in BOOLEAN, blocked \in 0..MaxFetched :
         /\ blocked <= n
         /\ CASE ~fetchOk ->
                   /\ ToolDone(Failure("sync_calendars", "adapter"))
                   /\ UNCHANGED <<therapy_appointment, siteBatches>>
              [] fetchOk /\ ~HasEvents(n) ->
                   /\ ToolDone([ToolResult("sync_calendars", TRUE, 0, -1, -1)
                                    EXCEPT !.listed = n])
                   /\ UNCHANGED <<therapy_appointment, siteBatches>>
              [] fetchOk /\ HasEvents(n) /\ ~creds ->
                   /\ ToolDone([Failure("sync_calendars", "credentials")
                                    EXCEPT !.listed = n])
                   /\ UNCHANGED <<therapy_appointment, siteBatches>>
              [] fetchOk /\ HasEvents(n) /\ creds ->
                   /\ therapy_appointment' = "created"
                   /\ siteBatches' = Append(siteBatches,
                          [events |-> FetchedList(n), origin |-> "fetched"])
                   /\ IF raises
                        THEN ToolDone([Failure("sync_calendars", "workflow")
                                         EXCEPT !.listed = n])
                        ELSE ToolDone([ToolResult("sync_calendars", TRUE, blocked,
                                                  -1, n) EXCEPT !.listed = n])
    /\ UNCHANGED notAgent

\* lines 171-172 with get_upcoming_events (237-267)
ExecGetUpcomingEvents ==
    /\ agPc = "tools" /\ tool_calls # <<>>
    /\ Head(tool_calls) = "get_upcoming_events"
    /\ \E ok \in BOOLEAN :
         IF ok THEN ToolDone(ToolResult("get_upcoming_events", TRUE, -1, -1, -1))
               ELSE ToolDone(Failure("get_upcoming_events", "adapter"))
    /\ UNCHANGED <<therapy_appointment, siteBatches>>
    /\ UNCHANGED notAgent

\* lines 173-174 with get_outlook_events (269-296)
ExecGetOutlookEvents ==
    /\ agPc = "tools" /\ tool_calls # <<>>
    /\ Head(tool_calls) = "get_outlook_events"
    /\ \E ok \in BOOLEAN :
         IF ok THEN ToolDone(ToolResult("get_outlook_events", TRUE, -1, -1, -1))
               ELSE ToolDone(Failure("get_outlook_events", "adapter"))
    /\ UNCHANGED <<therapy_appointment, siteBatches>>
    /\ UNCHANGED notAgent

\* lines 175-176 with sync_outlook_to_google (298-368)
ExecSyncOutlookToGoogle ==
    /\ agPc = "tools" /\ tool_calls # <<>>
    /\ Head(tool_calls) = "sync_outlook_to_google"
    /\ \E ok \in BOOLEAN, n \in 0..MaxFetched, a \in 0..MaxFetched,
          sk \in 0..MaxFetched :
         /\ a + sk <= n
         /\ CASE ~ok -> ToolDone(Failure("sync_outlook_to_google", "adapter"))
              [] ok /\ ~HasEvents(n) ->
                   ToolDone(ToolResult("sync_outlook_to_google", TRUE, 0, 0, -1))
              [] ok /\ HasEvents(n) ->
                   ToolDone(ToolResult("sync_outlook_to_google", TRUE, a, sk, n))
    /\ UNCHANGED <<therapy_appointment, siteBatches>>
    /\ UNCHANGED notAgent

\* lines 177-178: a name that is none of the four tools
ExecUnknown ==
    /\ agPc = "tools" /\ tool_calls # <<>>
    /\ Head(tool_calls) = "other"
    /\ ToolDone([ToolResult("other", FALSE, -1, -1, -1) EXCEPT !.message = TRUE])
    /\ UNCHANGED <<therapy_appointment, siteBatches>>
    /\ UNCHANGED notAgent

\* lines 186-201: the LLM's final answer is appended and returned
ChatFinal ==
    /\ agPc = "tools" /\ tool_calls = <<>>
    /\ conversation_history' = Append(conversation_history, "assistant")
    /\ agPc' = "idle"
    /\ UNCHANGED <<tool_calls, therapy_appointment, siteBatches, lastResult>>
    /\ UNCHANGED notAgent

\* CalendarSyncAgent.__init__ (32-69): the history holds the system message
InitAgent ==
    /\ IdleAgent
    /\ IdleBlock /\ IdleOutlook /\ IdleGoogle /\ IdleSync /\ IdleExtra

NextAgent ==
    \/ ChatBegin
    \/ ExecSyncCalendars
    \/ ExecGetUpcomingEvents
    \/ ExecGetOutlookEvents
    \/ ExecSyncOutlookToGoogle
    \/ ExecUnknown
    \/ ChatFinal

SpecAgent == InitAgent /\ [][NextAgent]_vars

\* C2: no event is blocked on the scheduling site unless it belongs to a
\* selection the human supplied: the sync-to-scheduling-site operation only
\* requests approval, so every batch handed to the browser workflow comes
\* from a selection, never directly from the fetched events.
OnlySelectedEventsReachTheSite ==
    \A k \in 1..Len(siteBatches) : siteBatches[k].origin = "selection"

-----------------------------------------------------------------------------
(* Times.  A time is an instant, counted in half minutes of the day in UTC, *)
(* written with a UTC offset (in half minutes).  fromisoformat keeps the    *)
(* offset of the text; strftime('%Y%m%d%H%M') prints the fields of the time *)
(* as written in that offset, down to the minute.                           *)

Titles == {"Intake", "Review"}

\* 14:00:00, 14:00:30 and 15:00:00 UTC
Instants == {1680, 1681, 1800}

\* UTC, and one hour west of it
Offsets == {0, -120}

Time == [utc : Instants, off : Offsets]

\* the value of a key that is absent (dict.get returning None)
NoTime == [utc |-> -1, off |-> 0]

\* start_dt.strftime('%Y%m%d%H%M'): the minute shown in the time's own offset
WallMinute(t) == (t.utc + t.off) \div 2

\* the minute of the instant itself, whatever offset it is written in
InstantMinute(t) == t.utc \div 2

\* the end of an event that starts at t and lasts d half minutes
EndOf(t, d) == [utc |-> t.utc + d, off |-> t.off]


-----------------------------------------------------------------------------
(* OutlookCalendarService.get_events and _get_token                         *)

notOutlook == <<blockVars, agentVars, googleVars, syncVars, extraVars>>

\* an event of the Graph response: start.dateTime carries no offset (UTC);
\* an all-day event starts at midnight
RawOutlook ==
    [subject : {"Intake"}, isAllDay : {FALSE}, start : Instants]
        \cup [subject : {"Intake"}, isAllDay : {TRUE}, start : {0}]

\* lines 559-582: one formatted event; a time without tzinfo gets UTC
FormatOutlookEvent(e) ==
    [subject |-> e.subject,
     start |-> [utc |-> e.start, off |-> 0],
     end |-> [utc |-> e.start + (IF e.isAllDay THEN 2880 ELSE 120), off |-> 0]]

FormatOutlookDropsAllDay(raw) ==
    LET timed == SelectSeq(raw, LAMBDA e : ~e.isAllDay)
    IN  [k \in 1..Len(timed) |-> FormatOutlookEvent(timed[k])]

\* lines 557-584: every event of the response is formatted
FormatOutlook(raw) == [k \in 1..Len(raw) |-> FormatOutlookEvent(raw[k])]

\* _get_token (494-527): the cached token when the cache file holds one,
\* else the device flow, which yields a new token or fails
GetToken(cached, flowOk) ==
    IF cached THEN "cached" ELSE IF flowOk THEN "new" ELSE "fail"

\* lines 551-584, 586-594: one listing request and what its status leads to
OutlookRequest ==
    /\ olPc = "request"
    /\ olRequests < MaxRequests
    /\ olRequests' = olRequests + 1
    /\ \E status \in {200, 401, 500} :
         CASE status = 200 ->
                /\ olReturned' = FormatOutlook(olRaw)
                /\ olOutcome' = "returned"
                /\ olPc' = "done"
           [] status = 401 ->
                /\ olPc' = "reauth"
                /\ UNCHANGED <<olReturned, olOutcome>>
           [] status = 500 ->
                /\ olOutcome' = "raised"
                /\ olPc' = "done"
                /\ UNCHANGED olReturned
    /\ UNCHANGED <<olRaw, olCache, olToken, olReauths>>
    /\ UNCHANGED notOutlook

\* lines 587-593: the cache file is removed, a token is fetched and
\* get_events calls itself
OutlookReauth ==
    /\ olPc = "reauth"
    /\ olReauths' = olReauths + 1
    /\ \E flowOk \in BOOLEAN :
         LET got == GetToken(FALSE, flowOk) IN
           IF got = "fail"
             THEN /\ olCache' = FALSE
                  /\ olOutcome' = "raised"
                  /\ olPc' = "done"
                  /\ UNCHANGED olToken
             ELSE /\ olCache' = TRUE
                  /\ olToken' = IF got = "new" THEN olToken + 1 ELSE olToken
                  /\ olPc' = "request"
                  /\ UNCHANGED olOutcome
    /\ UNCHANGED <<olRaw, olRequests, olReturned>>
    /\ UNCHANGED notOutlook

-----------------------------------------------------------------------------
(* GoogleCalendarService.get_events                                         *)

notGoogle == <<blockVars, agentVars, outlookVars, syncVars, extraVars>>

\* an item of the events.list response: a timed event has start.dateTime and
\* end.dateTime, an all-day event start.date and end.date
RawGoogle ==
    [summary : {"Intake"}, kind : {"dateTime", "date"},
     start : {t \in Time : t.utc = 1680}]

\* lines 429-437
FormatGoogleEvent(e) ==
    [summary |-> e.summary,
     start |-> IF e.kind = "dateTime" THEN e.start ELSE NoTime,
     end |-> IF e.kind = "dateTime" THEN EndOf(e.start, 120) ELSE NoTime]

\* lines 424-439: items without start.dateTime are left out
FormatGoogle(raw) ==
    LET timed == SelectSeq(raw, LAMBDA e : e.kind = "dateTime")
    IN  [k \in 1..Len(timed) |-> FormatGoogleEvent(timed[k])]

\* lines 414-439: the listing, which may raise, and the formatting
GoogleGetEvents ==
    /\ ggOutcome = "none"
    /\ \E ok \in BOOLEAN :
         IF ok THEN /\ ggReturned' = FormatGoogle(ggRaw)
                    /\ ggOutcome' = "returned"
               ELSE /\ ggOutcome' = "raised"
                    /\ UNCHANGED ggReturned
    /\ UNCHANGED ggRaw
    /\ UNCHANGED notGoogle

\* each adapter's get_events is called once on a provider response
InitAdapters ==
    /\ olRaw \in SeqsUpTo(RawOutlook, MaxRaw)
    /\ olCache = TRUE
    /\ olToken = 0
    /\ olPc = "request"
    /\ olRequests = 0
    /\ olReauths = 0
    /\ olOutcome = "none"
    /\ olReturned = <<>>
    /\ ggRaw \in SeqsUpTo(RawGoogle, MaxRaw)
    /\ ggOutcome = "none"
    /\ ggReturned = <<>>
    /\ IdleBlock /\ IdleAgent /\ IdleSync /\ IdleExtra

NextAdapters ==
    \/ OutlookRequest
    \/ OutlookReauth
    \/ GoogleGetEvents

SpecAdapters == InitAdapters /\ [][NextAdapters]_vars

\* C8: a get_events call of the Outlook adapter makes at most two listing
\* requests and at most one re-authentication: a 401 is retried once, and a
\* second 401 propagates to the caller.
AtMostOneReauthRetry ==
    /\ olRequests <= 2
    /\ olReauths <= 1

\* C9: no adapter returns an event without a concrete time of day: the
\* Google adapter returns timed items only, each with a start and an end,
\* and the Outlook adapter returns the response's events that are not
\* all-day.
NoAllDayEventReturned ==
    /\ ggOutcome = "returned"
          => /\ Len(ggReturned)
                  = Len(SelectSeq(ggRaw, LAMBDA e : e.kind = "dateTime"))
             /\ \A k \in 1..Len(ggReturned) :
                    ggReturned[k].start # NoTime /\ ggReturned[k].end # NoTime
    /\ olOutcome = "returned"
          => olReturned = FormatOutlookDropsAllDay(olRaw)

-----------------------------------------------------------------------------
(* CalendarSyncAgent.sync_outlook_to_google                                 *)

notSync == <<blockVars, agentVars, outlookVars, googleVars, extraVars>>

\* an event as OutlookCalendarService.get_events returns it: its start is
\* written in UTC (lines 567-577)
OutlookEvent ==
    {[subject |-> t, start |-> [utc |-> u, off |-> 0],
      end |-> [utc |-> u + 120, off |-> 0]] : t \in Titles, u \in Instants}

\* an event as GoogleCalendarService.get_events returns it: its start keeps
\* the offset the provider wrote it in (lines 429-437)
GoogleEvent ==
    {[summary |-> t, start |-> x, end |-> EndOf(x, 120)] : t \in Titles, x \in Time}

SignatureOfInstant(title, start) == <<title, InstantMinute(start)>>

\* lines 321-322 and 331-332: f"{title}_{start_dt.strftime('%Y%m%d%H%M')}"
Signature(title, start) == <<title, WallMinute(start)>>

\* a result dictionary of sync_outlook_to_google; -1: the key is absent
SyncResult(ok, synced, skip, total) ==
    [tool |-> "sync_outlook_to_google", success |-> ok,
     events_synced |-> synced, events_skipped |-> skip, total_events |-> total]

\* lines 300-310, 360-368: the Outlook listing; it may raise, and an empty
\* list ends the operation
SyncFetchOutlook ==
    /\ syPc = "start"
    /\ \E ok \in BOOLEAN :
         CASE ~ok ->
                /\ syResult' = SyncResult(FALSE, 0, -1, -1)
                /\ syPc' = "done"
           [] ok /\ ~HasEvents(Len(outlook_events)) ->
                /\ syResult' = SyncResult(TRUE, 0, 0, -1)
                /\ syPc' = "done"
           [] ok /\ HasEvents(Len(outlook_events)) ->
                /\ syPc' = "fetch_google"
                /\ UNCHANGED syResult
    /\ UNCHANGED <<outlook_events, google_events, google_signatures,
                   added_count, skipped_count, syIdx, inserts, skipped>>
    /\ UNCHANGED notSync

\* lines 315-327: the Google listing (it may raise) and the signature set
SyncFetchGoogle ==
    /\ syPc = "fetch_google"
    /\ \E ok \in BOOLEAN :
         IF ok
           THEN /\ google_signatures' =
                      {Signature(google_events[k].summary, google_events[k].start) :
                           k \in 1..Len(google_events)}
                /\ added_count' = 0
                /\ skipped_count' = 0
                /\ syIdx' = 1
                /\ syPc' = "loop"
                /\ UNCHANGED syResult
           ELSE /\ syResult' = SyncResult(FALSE, 0, -1, -1)
                /\ syPc' = "done"
                /\ UNCHANGED <<google_signatures, added_count, skipped_count,
                               syIdx>>
    /\ UNCHANGED <<outlook_events, google_events, inserts, skipped>>
    /\ UNCHANGED notSync

\* the signature is added whatever add_event returned
AfterInsertAlways(sigs, sig, ok) == sigs \cup {sig}

\* lines 348-350: the signature is added only when add_event returned True
AfterInsert(sigs, sig, ok) == IF ok THEN sigs \cup {sig} ELSE sigs

\* lines 329-350: one outlook event: skipped when its signature is in the
\* set, else add_event is called, and on success the signature is added
SyncOne ==
    /\ syPc = "loop"
    /\ syIdx <= Len(outlook_events)
    /\ LET e == outlook_events[syIdx]
           sig == Signature(e.subject, e.start)
       IN  IF sig \in google_signatures
             THEN /\ skipped_count' = skipped_count + 1
                  /\ skipped' = skipped \cup {syIdx}
                  /\ UNCHANGED <<added_count, google_signatures, inserts>>
             ELSE \E ok \in BOOLEAN :
                    /\ inserts' = Append(inserts, [idx |-> syIdx, ok |-> ok])
                    /\ added_count' = IF ok THEN added_count + 1 ELSE added_count
                    /\ google_signatures' = AfterInsert(google_signatures, sig, ok)
                    /\ UNCHANGED <<skipped_count, skipped>>
    /\ syIdx' = syIdx + 1
    /\ UNCHANGED <<outlook_events, google_events, syPc, syResult>>
    /\ UNCHANGED notSync

\* lines 352-358
SyncReturn ==
    /\ syPc = "loop"
    /\ syIdx > Len(outlook_events)
    /\ syResult' = SyncResult(TRUE, added_count, skipped_count,
                              Len(outlook_events))
    /\ syPc' = "done"
    /\ UNCHANGED <<outlook_events, google_events, google_signatures,
                   added_count, skipped_count, syIdx, inserts, skipped>>
    /\ UNCHANGED notSync

\* sync_outlook_to_google is called; the two listings are what the adapters
\* will return
InitSync ==
    /\ outlook_events \in SeqsUpTo(OutlookEvent, MaxOutlook)
    /\ google_events \in SeqsUpTo(GoogleEvent, MaxGoogle)
    /\ google_signatures = {}
    /\ added_count = 0
    /\ skipped_count = 0
    /\ syPc = "start"
    /\ syIdx = 1
    /\ inserts = <<>>
    /\ skipped = {}
    /\ syResult = NoResult
    /\ IdleBlock /\ IdleAgent /\ IdleOutlook /\ IdleGoogle /\ IdleExtra

NextSync ==
    \/ SyncFetchOutlook
    \/ SyncFetchGoogle
    \/ SyncOne
    \/ SyncReturn

SpecSync == InitSync /\ [][NextSync]_vars

\* source event j has the title and the start minute of a destination event
\* or of an earlier source event that was marked for insertion
SecondOccurrence(j) ==
    LET sig == SignatureOfInstant(outlook_events[j].subject, outlook_events[j].start)
    IN  \/ \E k \in 1..Len(google_events) :
              SignatureOfInstant(google_events[k].summary, google_events[k].start) = sig
        \/ \E k \in 1..(j - 1) :
              /\ k \notin skipped
              /\ SignatureOfInstant(outlook_events[k].subject, outlook_events[k].start) = sig

\* C10: each source event, in input order, is skipped (no insert issued)
\* exactly when an event with its title and start minute is among the
\* destination events or the earlier source events marked for insertion, and
\* is inserted otherwise; the inserts are issued in source order.
SecondOccurrenceIsSkipped ==
    syPc \in {"loop", "done"}
        => /\ \A j \in 1..(syIdx - 1) : (j \in skipped) <=> SecondOccurrence(j)
           /\ \A j \in 1..(syIdx - 1) :
                  (j \notin skipped) <=> (\E n \in 1..Len(inserts) : inserts[n].idx = j)
           /\ \A m, n \in 1..Len(inserts) : m < n => inserts[m].idx < inserts[n].idx

-----------------------------------------------------------------------------
(* sync_outlook_to_google called a second time on the same Outlook data     *)
(* (calendar_agent.py 298-368 with GoogleCalendarService.add_event 441-467  *)
(* and get_events 406-439)                                                  *)

notResync == <<blockVars, agentVars, outlookVars, googleVars, gateVars, uiVars,
               slotVars>>

\* the event that add_event(summary, start_time, end_time) created (lines
\* 444-460), as get_events lists it afterwards (lines 429-437): the instant
\* is the one sent, the text of the start is written by the provider with the
\* offset of the calendar, which the code does not choose (no timeZone
\* parameter in the events().list call of lines 414-421)
ListedInsert(e) ==
    [summary |-> e.subject,
     start |-> [utc |-> e.start.utc, off |-> calOff],
     end |-> EndOf([utc |-> e.start.utc, off |-> calOff], 120)]

\* the events whose add_event call returned True, in the order of the calls
Inserted(log) ==
    LET okIdx == SelectSeq(log, LAMBDA c : c.ok)
    IN  [k \in 1..Len(okIdx) |-> ListedInsert(outlook_events[okIdx[k].idx])]

\* the tool is called again after it returned: same Outlook listing, the
\* Google listing now holds the events the first run inserted
Rerun ==
    /\ syRun = 1
    /\ syPc = "done"
    /\ syRun' = 2
    /\ firstRun' = [calls |-> inserts, result |-> syResult]
    /\ google_events' = google_events \o Inserted(inserts)
    /\ google_signatures' = {}
    /\ added_count' = 0
    /\ skipped_count' = 0
    /\ syPc' = "start"
    /\ syIdx' = 1
    /\ inserts' = <<>>
    /\ skipped' = {}
    /\ syResult' = NoResult
    /\ UNCHANGED <<outlook_events, calOff>>
    /\ UNCHANGED notResync

InitResync ==
    /\ outlook_events \in SeqsUpTo(OutlookEvent, MaxOutlook)
    /\ google_events \in SeqsUpTo(GoogleEvent, MaxGoogle)
    /\ google_signatures = {}
    /\ added_count = 0
    /\ skipped_count = 0
    /\ syPc = "start"
    /\ syIdx = 1
    /\ inserts = <<>>
    /\ skipped = {}
    /\ syResult = NoResult
    /\ syRun = 1
    /\ calOff \in Offsets
    /\ firstRun = [calls |-> <<>>, result |-> NoResult]
    /\ IdleBlock /\ IdleAgent /\ IdleOutlook /\ IdleGoogle
    /\ IdleGate /\ IdleUI /\ IdleSlot

NextResync ==
    \/ SyncFetchOutlook
    \/ SyncFetchGoogle
    \/ SyncOne
    \/ SyncReturn
    \/ Rerun

SpecResync == InitResync /\ [][NextResync]_vars

\* C11: when both runs succeed and every insertion of the first run
\* succeeded, the second run on the same Outlook data, whose Google listing
\* holds the events the first run inserted, issues no insert and reports
\* every Outlook event as skipped.
SecondRunInsertsNothing ==
    (/\ syRun = 2
     /\ syPc = "done"
     /\ syResult.success
     /\ firstRun.result.success
     /\ \A n \in 1..Len(firstRun.calls) : firstRun.calls[n].ok)
        => /\ inserts = <<>>
           /\ syResult.events_synced = 0
           /\ syResult.events_skipped = Len(outlook_events)

-----------------------------------------------------------------------------
(* The Human Approval Gate.  streamlit_app.py imports                       *)
(* CalendarSyncAgentWithHITL from calendar_agent (line 9), which the        *)
(* module does not define: the gate is modelled from section 4.3 of the     *)
(* specification.                                                           *)

notGate == <<blockVars, agentVars, outlookVars, googleVars, syncVars,
             rerunVars, uiVars, slotVars>>

MaxBatch == 3       \* events in one approval batch

MaxApprovals == 2   \* requestApproval calls

MaxTokens == 2      \* comma-separated entries in one selection text

\* the batch of the n-th requestApproval: its events, in listing order
BatchOf(req, size) == [k \in 1..size |-> [req |-> req, ev |-> k]]

\* one comma-separated entry of a selection text: an integer or another word
Num(n) == [num |-> TRUE, n |-> n, w |-> ""]

Word(w) == [num |-> FALSE, n |-> 0, w |-> w]

Words == {"all", "ALL", "none", "Cancel", "skip", "abc", ""}

Tokens == {Num(n) : n \in 0..(MaxBatch + 1)} \cup {Word(w) : w \in Words}

\* a selection text, as its comma-separated entries
SelectionTexts == UNION {[1..n -> Tokens] : n \in 1..MaxTokens}

\* case-insensitive comparison: the lower-case form of a word
Lower(w) ==
    CASE w = "ALL" -> "all"
      [] w = "Cancel" -> "cancel"
      [] OTHER -> w

\* 1-based positions: the entry n of the text selects batch[n]
PickZeroBased(batch, n) == IF n + 1 \in 1..Len(batch) THEN <<batch[n + 1]>> ELSE <<>>

Pick(batch, n) == IF n \in 1..Len(batch) THEN <<batch[n]>> ELSE <<>>

RECURSIVE PickAll(_, _)
\* the batch items at the positions given, in the order given, out-of-range
\* positions dropped
PickAll(batch, text) ==
    IF text = <<>> THEN <<>>
    ELSE Pick(batch, Head(text).n) \o PickAll(batch, Tail(text))

\* resolve(selectionText) on a stored batch
ResolveSelection(batch, text) ==
    LET whole == IF Len(text) = 1 /\ ~text[1].num THEN Lower(text[1].w) ELSE "?"
    IN  CASE whole \in {"none", "cancel", "skip"} -> <<>>
          [] whole = "all" -> batch
          [] \E k \in 1..Len(text) : ~text[k].num -> <<>>
          [] OTHER -> PickAll(batch, text)

\* what is stored after a resolve that selected `selected`: nothing
DiscardIfSelected(stored, selected) == IF selected = <<>> THEN stored ELSE <<>>

Discard(stored, selected) == <<>>

\* requestApproval(batch): stores the batch; a batch still pending is
\* overwritten
RequestApproval ==
    /\ selection = NoSelection
    /\ batchNo < MaxApprovals
    /\ \E size \in 1..MaxBatch :
         pending' = <<BatchOf(batchNo + 1, size)>>
    /\ batchNo' = batchNo + 1
    /\ gateState' = "AwaitingSelection"
    /\ UNCHANGED <<consumed, selection>>
    /\ UNCHANGED notGate

\* resolve(selectionText): the human's next message; it parses the text
\* against what is stored, returns the selection and discards the batch
Resolve(text) ==
    LET batch == IF pending = <<>> THEN <<>> ELSE Head(pending)
        number == IF batch = <<>> THEN 0 ELSE batch[1].req
        selected == ResolveSelection(batch, text)
    IN  /\ selection = NoSelection
        /\ selection' = [from |-> batch, text |-> text, selected |-> selected,
                         raised |-> FALSE, again |-> number \in consumed]
        /\ consumed' = consumed \cup (IF number = 0 THEN {} ELSE {number})
        /\ pending' = Discard(pending, selected)
        /\ gateState' = "Idle"
        /\ UNCHANGED batchNo
        /\ UNCHANGED notGate

\* resolve has returned: the caller takes the selection (one thread of
\* control: nothing else happens in between)
Deliver ==
    /\ selection # NoSelection
    /\ selection' = NoSelection
    /\ UNCHANGED <<gateState, pending, batchNo, consumed>>
    /\ UNCHANGED notGate

InitGate ==
    /\ IdleGate
    /\ IdleBlock /\ IdleAgent /\ IdleOutlook /\ IdleGoogle /\ IdleSync
    /\ IdleRerun /\ IdleUI /\ IdleSlot

NextGate ==
    \/ RequestApproval
    \/ \E text \in SelectionTexts : Resolve(text)
    \/ Deliver

SpecGate == InitGate /\ [][NextGate]_vars

\* the entries of the last selection text that are positions of its batch
InRange == SelectSeq(selection.text, LAMBDA x : x.n \in 1..Len(selection.from))

\* C12: resolve on a stored batch raises nothing and returns the whole batch
\* for "all" in any case, nothing for "none", "cancel", "skip" in any case,
\* for a comma-separated list of integers the batch items at the positions
\* given (1-based, in the order given, out-of-range entries dropped), and
\* nothing for any other text.
ResolveFollowsSelectionText ==
    LET t == selection.text
        b == selection.from
        one == Len(t) = 1 /\ ~t[1].num
    IN  (t # <<>> /\ b # <<>>)
          => /\ ~selection.raised
             /\ CASE one /\ t[1].w \in {"all", "ALL"} -> selection.selected = b
                  [] one /\ t[1].w \in {"none", "Cancel", "skip"} ->
                        selection.selected = <<>>
                  [] \A k \in 1..Len(t) : t[k].num ->
                        /\ Len(selection.selected) = Len(InRange)
                        /\ \A k \in 1..Len(InRange) :
                               selection.selected[k] = b[InRange[k].n]
                  [] OTHER -> selection.selected = <<>>

\* "1,3" on a batch of three was resolved to its first and third event
FirstAndThirdSelected ==
    /\ Len(selection.from) = 3
    /\ selection.text = <<Num(1), Num(3)>>
    /\ selection.selected = <<selection.from[1], selection.from[3]>>

\* C13: at most one batch is pending, it is pending exactly while the gate
\* awaits a selection, every resolve leaves the gate idle with nothing
\* pending, no batch is resolved twice, and a selection text sent when
\* nothing is pending selects nothing.
PendingBatchConsumedOnce ==
    /\ Len(pending) <= 1
    /\ (gateState = "AwaitingSelection") <=> (pending # <<>>)
    /\ ~selection.again
    /\ pending # <<>> => pending[1][1].req \notin consumed
    /\ selection.from = <<>> => selection.selected = <<>>
    /\ selection.text # <<>> /\ batchNo \in consumed => gateState = "Idle"

\* after a batch was resolved, the text "all" selected nothing
AllAfterResolveSelectsNothing ==
    /\ consumed # {}
    /\ gateState = "Idle"
    /\ selection.text = <<Word("all")>>
    /\ selection.from = <<>>
    /\ selection.selected = <<>>

-----------------------------------------------------------------------------
(* The Streamlit script (streamlit_app.py): one action is one run of the    *)
(* script, started by the page load, a chat message or a button.            *)

notUI == <<blockVars, agentVars, outlookVars, googleVars, syncVars, rerunVars,
           gateVars, slotVars>>

MaxMessages == 6    \* entries of st.session_state.messages

\* check_environment (lines 96-103)
Config == [outlook : BOOLEAN, google : BOOLEAN, therapy : BOOLEAN]

\* GoogleCalendarService.__init__ (calendar_agent.py 376-404) with no stored
\* token: FileNotFoundError without credentials.json, else the sign-in flow
GoogleService ==
    IF ~cfg.google THEN "FileNotFoundError"
    ELSE IF authOk.google THEN "ok" ELSE "Exception"

\* OutlookCalendarService.__init__ (calendar_agent.py 473-492): ValueError
\* without OUTLOOK_CLIENT_ID, else _get_token
OutlookService ==
    IF ~cfg.outlook THEN "ValueError"
    ELSE IF authOk.outlook THEN "ok" ELSE "Exception"

\* CalendarSyncAgent.__init__ (calendar_agent.py 32-37) constructs the Google
\* service, then the Outlook service; the first exception leaves it
AgentInit == IF GoogleService # "ok" THEN GoogleService ELSE OutlookService

\* initialize_agent (lines 106-118): every exception gives None
InitializeAgent == IF AgentInit = "ok" THEN "ready" ELSE "None"

Message(role, kind) == [role |-> role, kind |-> kind]

\* what run_async(agent.chat(prompt)) gives: a text, a text holding the
\* approval prompt, a falsy value, or an exception
Responses == {"text", "approval", "none", "raise"}

\* lines 186-193: the history loop sets the flag when an assistant message
\* holds the approval prompt
DisplayHistory(msgs, flag) ==
    flag \/ \E k \in 1..Len(msgs) :
                msgs[k].role = "assistant" /\ msgs[k].kind = "approval"

\* lines 121-132 on the first run of the script
Load ==
    /\ agent = "unset"
    /\ agent' = InitializeAgent
    /\ UNCHANGED <<cfg, authOk, messages, awaiting_selection, show_welcome>>
    /\ UNCHANGED notUI

\* lines 186-229: a run with a chat message
ChatInput ==
    /\ agent # "unset"
    /\ Len(messages) + 2 <= MaxMessages
    /\ LET shown == DisplayHistory(messages, awaiting_selection)
       IN  IF agent = "None"
             THEN /\ awaiting_selection' = shown
                  /\ UNCHANGED <<messages, show_welcome>>
             ELSE /\ show_welcome' = FALSE
                  /\ \E resp \in Responses :
                       /\ messages' = messages \o
                            <<Message("user", "typed"),
                              Message("assistant",
                                      IF resp \in {"none", "raise"} THEN "error"
                                                                   ELSE resp)>>
                       /\ awaiting_selection' =
                            CASE resp = "approval" -> TRUE
                              [] resp = "text" -> FALSE
                              [] OTHER -> shown
    /\ UNCHANGED <<cfg, authOk, agent>>
    /\ UNCHANGED notUI

Buttons == {"outlook_view", "outlook_to_google", "google_view", "google_to_therapy"}

\* the disabled= argument of each button (lines 248, 260, 276, 287-288)
Enabled(b) ==
    CASE b = "outlook_view" -> cfg.outlook
      [] b = "outlook_to_google" -> cfg.outlook /\ cfg.google
      [] b = "google_view" -> cfg.google
      [] b = "google_to_therapy" ->
             cfg.google /\ cfg.therapy /\ ~awaiting_selection

\* lines 248-299: a run with a sidebar button pressed, and the run that
\* st.rerun() starts; agent.chat on None is an AttributeError, caught
SidebarButton ==
    /\ agent # "unset"
    /\ Len(messages) + 2 <= MaxMessages
    /\ \E b \in Buttons, resp \in Responses :
         /\ Enabled(b)
         /\ LET shown == DisplayHistory(messages, awaiting_selection)
                answer == IF agent = "None" THEN "raise" ELSE resp
                said == CASE answer = "none" -> <<>>
                          [] answer = "raise" -> <<Message("assistant", "error")>>
                          [] OTHER -> <<Message("assistant", answer)>>
                flagged == shown \/ (b = "google_to_therapy" /\ answer = "approval")
           IN  /\ messages' = messages \o <<Message("user", b)>> \o said
               /\ awaiting_selection' = DisplayHistory(messages', flagged)
    /\ UNCHANGED <<cfg, authOk, agent, show_welcome>>
    /\ UNCHANGED notUI

\* lines 303-309: Clear Chat
ClearChat ==
    /\ agent # "unset"
    /\ messages' = <<>>
    /\ agent' = InitializeAgent
    /\ show_welcome' = TRUE
    /\ awaiting_selection' = FALSE
    /\ UNCHANGED <<cfg, authOk>>
    /\ UNCHANGED notUI

InitUI ==
    /\ cfg \in Config
    /\ authOk \in [outlook : BOOLEAN, google : BOOLEAN]
    /\ agent = "unset"
    /\ messages = <<>>
    /\ awaiting_selection = FALSE
    /\ show_welcome = TRUE
    /\ IdleBlock /\ IdleAgent /\ IdleOutlook /\ IdleGoogle /\ IdleSync
    /\ IdleRerun /\ IdleGate /\ IdleSlot

NextUI ==
    \/ Load
    \/ ChatInput
    \/ SidebarButton
    \/ ClearChat

SpecUI == InitUI /\ [][NextUI]_vars

\* C14: when the credentials of one provider are absent and the other
\* provider is configured and signs in, the agent is constructed, so the
\* operations of the configured provider can be used.
OtherProviderStaysUsable ==
    agent # "unset"
        => /\ (~cfg.outlook /\ cfg.google /\ authOk.google) => agent = "ready"
           /\ (~cfg.google /\ cfg.outlook /\ authOk.outlook) => agent = "ready"

-----------------------------------------------------------------------------
(* Claims on the results of the tool operations (SpecAgent)                 *)

\* C15: no tool operation raises; when an adapter, the site credentials or
\* the browser workflow failed, the result has success = false and a
\* message, and for sync_calendars and sync_outlook_to_google also
\* events_synced = 0.
ToolFailureIsAResult ==
    /\ ~lastResult.raised
    /\ lastResult.cause # "none"
          => /\ ~lastResult.success
             /\ lastResult.message
             /\ lastResult.tool \in SyncTools => lastResult.events_synced = 0

\* sync_calendars ended on an exception of block_multiple_times (a fatal
\* login or navigation failure) and returned the failure dictionary
WorkflowFailureReported ==
    /\ lastResult.tool = "sync_calendars"
    /\ lastResult.cause = "workflow"
    /\ therapy_appointment = "created"
    /\ ~lastResult.success
    /\ lastResult.events_synced = 0

-----------------------------------------------------------------------------
(* TherapyAppointmentAutomation._block_time_slot and _navigate_calendar     *)
(* (calendar_agent.py 695-776), against the datepicker of the site          *)

notSlot == <<blockVars, agentVars, outlookVars, googleVars, syncVars, rerunVars,
             gateVars, uiVars>>

max_attempts == 24

MaxDistance == 25   \* months between the month first shown and the target

MaxLead == 2        \* cells of the previous month before day 1 in the grid

\* a month of the datepicker
Month(y, m) == [year |-> y, month |-> m]

IsLeap(y) == (y % 4 = 0 /\ y % 100 # 0) \/ y % 400 = 0

DaysIn(d) ==
    CASE d.month \in {4, 6, 9, 11} -> 30
      [] d.month = 2 -> IF IsLeap(d.year) THEN 29 ELSE 28
      [] OTHER -> 31

\* the month shown after th.next and after th.prev
NextMonth(d) == IF d.month = 12 THEN Month(d.year + 1, 1) ELSE Month(d.year, d.month + 1)

PrevMonth(d) == IF d.month = 1 THEN Month(d.year - 1, 12) ELSE Month(d.year, d.month - 1)

RECURSIVE Shift(_, _)
\* the month k months after d (before, when k is negative)
Shift(d, k) ==
    IF k = 0 THEN d
    ELSE IF k > 0 THEN Shift(NextMonth(d), k - 1) ELSE Shift(PrevMonth(d), k + 1)

\* target_date.month, target_date.year (lines 753-754)
Target(e) == Month(e.year, e.month)

\* the months the events are in: one of 31 days after one of 31 days, and a
\* February of 29 days
SlotMonths == {Month(2025, 1), Month(2024, 2)}

\* the events given to _block_time_slot: every day of those months,
\* 09:00-10:00; valid: their times parse (lines 697-698)
SlotEvent ==
    {[summary |-> t, valid |-> v, year |-> x[1].year, month |-> x[1].month,
      day |-> x[2], startMin |-> 540, endMin |-> 600] :
        t \in Titles, v \in BOOLEAN,
        x \in {y \in SlotMonths \X (1..31) : y[2] <= DaysIn(y[1])}}

\* the same event under another title
TwinOf(e) == [e EXCEPT !.summary = IF e.summary = "Intake" THEN "Review" ELSE "Intake"]

\* one interaction with the page
Op(kind, sel, text, num) == [op |-> kind, sel |-> sel, text |-> text, num |-> num]

\* the th.next and th.prev clicks of one _navigate_calendar call, counted
Paged(next, prev) == Op("click", "th.next/th.prev", "", <<next, prev>>)

\* the decimal text of a day number
Digits(n) == IF n < 10 THEN <<n>> ELSE <<n \div 10, n % 10>>

\* :has-text("...") is a substring match
Contains(hay, needle) ==
    \E k \in 1..(Len(hay) - Len(needle) + 1) :
        SubSeq(hay, k, k + Len(needle) - 1) = needle

\* the td.day cells of the grid in document order: the last days of the
\* previous month (class old), the days of the month shown, the first days of
\* the next month (class new), 42 cells in all
Grid(d, lead) ==
    LET before == DaysIn(PrevMonth(d))
        len == DaysIn(d)
    IN  [k \in 1..lead |-> [text |-> before - lead + k, cls |-> "old"]]
        \o [k \in 1..len |-> [text |-> k, cls |-> "day"]]
        \o [k \in 1..(42 - lead - len) |-> [text |-> k, cls |-> "new"]]

\* td.day:has-text("{day}"), without the :not(.old):not(.new)
MatchesAnyMonth(cell, day) == Contains(Digits(cell.text), Digits(day))

\* line 724: td.day:not(.old):not(.new):has-text("{start_dt.day}")
Matches(cell, day) ==
    /\ cell.cls \notin {"old", "new"}
    /\ Contains(Digits(cell.text), Digits(day))

\* line 725: page.click(selector) acts on the first element that matches;
\* 0 when none does
FirstMatch(cells, day) ==
    LET hits == {k \in 1..Len(cells) : Matches(cells[k], day)}
    IN  IF hits = {} THEN 0 ELSE CHOOSE k \in hits : \A j \in hits : k <= j

\* the months an erratic widget shows and writes in its label
Near(t) == {PrevMonth(t), t, NextMonth(t)}

\* line 759-764: what text_content, split, int and strptime give; NoLabel: one
\* of them raised
Readings ==
    CASE widget.mode = "faithful" -> {display}
      [] widget.mode = "blank" -> {NoLabel}
      [] OTHER -> {NoLabel} \cup Near(Target(slEvent))

\* line 768 read with the months alone
BeforeByMonthOnly(label, e) == label.month < e.month

\* line 768: (current_year < target_year) or (current_year == target_year
\* and current_month < target_month)
Before(label, e) ==
    \/ label.year < e.year
    \/ label.year = e.year /\ label.month < e.month

\* what the widget shows after the click; NoLabel: the click raised
Moves(label) ==
    IF widget.mode = "faithful"
      THEN {IF Before(label, slEvent) THEN NextMonth(display) ELSE PrevMonth(display)}
      ELSE {NoLabel} \cup Near(Target(slEvent))

\* the loop runs whatever the count
LoopForever(n) == TRUE

\* line 757: for _ in range(max_attempts)
LoopContinues(n) == n < max_attempts

\* lines 766-771: the click of one iteration for event e, added to the count
PageAfter(entry, label, e) ==
    IF label = NoLabel \/ label = Target(e) THEN entry
    ELSE IF Before(label, e) THEN Paged(entry.num[1] + 1, entry.num[2])
    ELSE Paged(entry.num[1], entry.num[2] + 1)

\* lines 757-776: one iteration of the loop of _navigate_calendar
NavigateStep ==
    /\ slPc = "nav"
    /\ LoopContinues(attempts)
    /\ attempts' = attempts + 1
    /\ \E label \in Readings :
         IF label = NoLabel \/ label = Target(slEvent)
           THEN /\ slPc' = "day"
                /\ UNCHANGED <<display, clicks, slOps, slTwin>>
           ELSE \E moved \in Moves(label) :
                  IF moved = NoLabel
                    THEN /\ slPc' = "day"
                         /\ UNCHANGED <<display, clicks, slOps, slTwin>>
                    ELSE /\ display' = moved
                         /\ clicks' = clicks + 1
                         /\ slOps' = [slOps EXCEPT ![Len(slOps)] =
                                         PageAfter(@, label, slEvent)]
                         /\ slTwin' = [slTwin EXCEPT ![Len(slTwin)] =
                                         PageAfter(@, label, TwinOf(slEvent))]
                         /\ UNCHANGED slPc
    /\ UNCHANGED <<slEvent, origin, widget, dayClicked, slOutcome>>
    /\ UNCHANGED notSlot

\* the loop has run max_attempts times: _navigate_calendar returns
NavigateReturn ==
    /\ slPc = "nav"
    /\ ~LoopContinues(attempts)
    /\ slPc' = "day"
    /\ UNCHANGED <<slEvent, slOps, slTwin, display, origin, widget, attempts,
                   clicks, dayClicked, slOutcome>>
    /\ UNCHANGED notSlot

\* _navigate_calendar is called with the date of an event; the widget shows
\* a month up to MaxDistance months away, or is erratic
InitCalendar ==
    /\ slEvent \in {e \in SlotEvent : e.valid /\ e.day = 1 /\ e.summary = "Intake"}
    /\ slPc = "nav"
    /\ slOps = <<Paged(0, 0)>>
    /\ slTwin = <<Paged(0, 0)>>
    /\ widget \in [mode : {"faithful", "blank", "erratic"}, lead : {0}]
    /\ origin \in IF widget.mode = "erratic"
                    THEN Near(Target(slEvent))
                    ELSE {Shift(Target(slEvent), k) :
                              k \in (-MaxDistance)..MaxDistance}
    /\ display = origin
    /\ attempts = 0
    /\ clicks = 0
    /\ dayClicked = NoCell
    /\ slOutcome = "none"
    /\ IdleBlock /\ IdleAgent /\ IdleOutlook /\ IdleGoogle /\ IdleSync
    /\ IdleRerun /\ IdleGate /\ IdleUI

NextCalendar ==
    \/ NavigateStep
    \/ NavigateReturn

SpecCalendar == InitCalendar /\ [][NextCalendar]_vars

\* C16: whatever labels the widget shows (matching or not, parseable or
\* not), _navigate_calendar makes at most 24 next/prev clicks and terminates:
\* every iteration counts towards the 24 or leaves the loop, and the loop is
\* never stuck.
NavigationIsBounded ==
    /\ [](/\ clicks <= attempts
          /\ attempts <= max_attempts
          /\ slPc = "nav" => ENABLED NextCalendar)
    /\ [][slPc = "nav" => (attempts' = attempts + 1 \/ slPc' = "day")]_vars

\* all 24 iterations clicked and the month shown is still not the target
PagedOutWithoutArriving ==
    /\ slPc = "day"
    /\ attempts = max_attempts
    /\ clicks = max_attempts
    /\ display # Target(slEvent)

\* months from a to b, counted on the calendar
MonthsApart(a, b) ==
    LET diff == (12 * a.year + a.month) - (12 * b.year + b.month)
    IN  IF diff < 0 THEN -diff ELSE diff

\* C19: with a widget that is read correctly and moves one month per click,
\* every click brings the month shown one month nearer to the target (next
\* only from before it, prev only from after it, never past it), and when
\* the first month shown is at most 24 months away the navigation ends on the
\* target after exactly that many clicks.
FaithfulPagingReachesTarget ==
    widget.mode = "faithful" /\ slPc \in {"nav", "day"}
        => LET far == MonthsApart(origin, Target(slEvent))
               page == slOps[Len(slOps)].num
           IN  /\ MonthsApart(display, Target(slEvent)) + clicks = far
               /\ page[1] + page[2] = clicks
               /\ page[1] > 0 => page[2] = 0 /\ Before(origin, slEvent)
               /\ page[2] > 0 => page[1] = 0 /\ Before(slEvent, origin)
               /\ (slPc = "day" /\ far <= max_attempts)
                      => display = Target(slEvent) /\ clicks = far

\* the target was 24 months after the month first shown and was reached
TwentyFourMonthsPaged ==
    /\ widget.mode = "faithful"
    /\ slPc = "day"
    /\ Before(origin, slEvent)
    /\ MonthsApart(origin, Target(slEvent)) = max_attempts
    /\ display = Target(slEvent)
    /\ clicks = max_attempts

\* lines 701-719: the clicks up to the date field for event e, of which the
\* first n succeeded; the Close dialog click is made when the dialog is there
OpenOps(e, dialog, n) ==
    LET rest == <<Op("click", "button:has-text(Out Of Office)", "", <<>>),
                  Op("click", "button:has-text(Let's do that)", "", <<>>),
                  Op("click", "#event_date", "", <<>>)>>
    IN  IF n = 0 THEN <<>>
        ELSE <<Op("click", "text=Edit Availability", "", <<>>)>>
             \o (IF dialog THEN <<Op("click", "button Close dialog", "", <<>>)>>
                           ELSE <<>>)
             \o SubSeq(rest, 1, n - 1)

\* the title field is filled with the event's own title
TitleFromSummary(e) == e.summary

\* line 737: the text filled into #calendar_event_name
TitleText(e) == "Unavailable"

\* lines 727-741: the fills and the submit for event e, of which the first n
\* succeeded; the times are strftime('%H:%M') of start_dt and end_dt
FillOps(e, n) ==
    SubSeq(<<Op("fill", "#event_starttime", "",
                <<e.startMin \div 60, e.startMin % 60>>),
             Op("fill", "#event_endtime", "",
                <<e.endMin \div 60, e.endMin % 60>>),
             Op("fill", "#calendar_event_name", TitleText(e), <<>>),
             Op("click", "button[type=submit].btn-action", "", <<>>)>>, 1, n)

\* lines 697-719: the times are parsed (outside the try: an exception leaves
\* the method), then the editor is opened up to the date field
OpenEditor ==
    /\ slPc = "start"
    /\ IF ~slEvent.valid
         THEN /\ slOutcome' = "raised"
              /\ slPc' = "done"
              /\ UNCHANGED <<slOps, slTwin>>
         ELSE \E dialog \in BOOLEAN, n \in 0..4 :
                /\ slOps' = slOps \o OpenOps(slEvent, dialog, n)
                               \o (IF n = 4 THEN <<Paged(0, 0)>> ELSE <<>>)
                /\ slTwin' = slTwin \o OpenOps(TwinOf(slEvent), dialog, n)
                               \o (IF n = 4 THEN <<Paged(0, 0)>> ELSE <<>>)
                /\ slPc' = IF n = 4 THEN "nav" ELSE "except"
                /\ UNCHANGED slOutcome
    /\ UNCHANGED <<slEvent, display, origin, widget, attempts, clicks, dayClicked>>
    /\ UNCHANGED notSlot

\* lines 724-725: the day cell is clicked, whatever _navigate_calendar did
ClickDay ==
    /\ slPc = "day"
    /\ LET cells == Grid(display, widget.lead)
           hit == FirstMatch(cells, slEvent.day)
           day(e) == Op("click", "td.day:not(.old):not(.new):has-text", "",
                        Digits(e.day))
       IN  \E ok \in BOOLEAN :
             IF hit = 0 \/ ~ok
               THEN /\ slPc' = "except"
                    /\ UNCHANGED <<slOps, slTwin, dayClicked>>
               ELSE /\ dayClicked' = cells[hit]
                    /\ slOps' = Append(slOps, day(slEvent))
                    /\ slTwin' = Append(slTwin, day(TwinOf(slEvent)))
                    /\ slPc' = "fill"
    /\ UNCHANGED <<slEvent, display, origin, widget, attempts, clicks, slOutcome>>
    /\ UNCHANGED notSlot

\* lines 727-744: times, title, submit, return True
FillAndSubmit ==
    /\ slPc = "fill"
    /\ \E n \in 0..4 :
         /\ slOps' = slOps \o FillOps(slEvent, n)
         /\ slTwin' = slTwin \o FillOps(TwinOf(slEvent), n)
         /\ IF n = 4
              THEN slOutcome' = "true" /\ slPc' = "done"
              ELSE slPc' = "except" /\ UNCHANGED slOutcome
    /\ UNCHANGED <<slEvent, display, origin, widget, attempts, clicks, dayClicked>>
    /\ UNCHANGED notSlot

\* lines 746-749: the handler takes a screenshot (which may raise) and
\* returns False
SlotExcept ==
    /\ slPc = "except"
    /\ \E shot \in BOOLEAN :
         IF shot
           THEN /\ slOps' = Append(slOps, Op("screenshot", "block_error.png", "", <<>>))
                /\ slTwin' = Append(slTwin, Op("screenshot", "block_error.png", "", <<>>))
                /\ slOutcome' = "false"
           ELSE /\ slOutcome' = "raised"
                /\ UNCHANGED <<slOps, slTwin>>
    /\ slPc' = "done"
    /\ UNCHANGED <<slEvent, display, origin, widget, attempts, clicks, dayClicked>>
    /\ UNCHANGED notSlot

\* _block_time_slot is called on the schedule view; the datepicker will
\* open on the target month, next to it, or beyond the reach of 24 clicks,
\* and its label can be read or not
InitSlot ==
    /\ slEvent \in SlotEvent
    /\ slPc = "start"
    /\ slOps = <<>>
    /\ slTwin = <<>>
    /\ widget \in [mode : {"faithful", "blank"}, lead : 0..MaxLead]
    /\ origin \in {Shift(Target(slEvent), k) :
                       k \in {-MaxDistance, -1, 0, 1, MaxDistance}}
    /\ display = origin
    /\ attempts = 0
    /\ clicks = 0
    /\ dayClicked = NoCell
    /\ slOutcome = "none"
    /\ IdleBlock /\ IdleAgent /\ IdleOutlook /\ IdleGoogle /\ IdleSync
    /\ IdleRerun /\ IdleGate /\ IdleUI

NextSlot ==
    \/ OpenEditor
    \/ NavigateStep
    \/ NavigateReturn
    \/ ClickDay
    \/ FillAndSubmit
    \/ SlotExcept

SpecSlot == InitSlot /\ [][NextSlot]_vars

\* C17: the title field receives the fixed label, and an event that differs
\* only in its title produces the same sequence of interactions with the
\* site, at every point of the sequence.
TitleNeverReachesTheSite ==
    /\ slOps = slTwin
    /\ \A k \in 1..Len(slOps) :
           slOps[k].sel = "#calendar_event_name" => slOps[k].text = "Unavailable"

\* an event titled Intake was blocked and its title field was filled
IntakeBlockedAsUnavailable ==
    /\ slEvent.summary = "Intake"
    /\ slOutcome = "true"
    /\ \E k \in 1..Len(slOps) :
           slOps[k] = Op("fill", "#calendar_event_name", "Unavailable", <<>>)

\* C18: a day cell is clicked, and the outcome is true, only when the
\* widget shows the month and year of the event's start.
DayClickedOnlyInTargetMonth ==
    (dayClicked # NoCell \/ slOutcome = "true") => display = Target(slEvent)

\* C20: with the month of the event shown, the selector's first match is the
\* cell of the start day in that month, and it is the cell that is clicked.
StartDayCellIsClicked ==
    display = Target(slEvent)
        => /\ slPc = "day" =>
                 LET cells == Grid(display, widget.lead)
                     hit == FirstMatch(cells, slEvent.day)
                 IN  hit # 0 /\ cells[hit] = [text |-> slEvent.day, cls |-> "day"]
           /\ dayClicked # NoCell =>
                 dayClicked = [text |-> slEvent.day, cls |-> "day"]

\* day 1 of a month of 31 days was clicked, with cells of the previous month
\* in front of it
DayOneClicked ==
    /\ slEvent.day = 1
    /\ DaysIn(display) = 31
    /\ widget.lead > 0
    /\ display = Target(slEvent)
    /\ dayClicked = [text |-> 1, cls |-> "day"]

-----------------------------------------------------------------------------
(* The two sync tools side by side: sync_calendars as the chat dispatches   *)
(* it (203-235) and sync_outlook_to_google step by step (298-368); a run    *)
(* is one or the other                                                      *)

InitTools == InitAgent \/ InitSync

NextTools ==
    \/ syPc = "idle" /\ NextAgent
    \/ NextSync

SpecTools == InitTools /\ [][NextTools]_vars

\* C21: on an empty listing sync_outlook_to_google never reaches the Google
\* listing or an insert and returns success with 0 synced and 0 skipped, and
\* sync_calendars returns success with events_synced = 0, leaving the
\* automation object unconstructed and starting no browser workflow.
EmptyListingTouchesNothing ==
    /\ []((outlook_events = <<>> /\ syPc # "idle")
            => /\ syPc \in {"start", "done"}
               /\ inserts = <<>>
               /\ google_signatures = {}
               /\ (syPc = "done" /\ syResult.success)
                      => /\ syResult.events_synced = 0
                         /\ syResult.events_skipped = 0)
    /\ [][(/\ agPc = "tools"
           /\ tool_calls # <<>>
           /\ Head(tool_calls) = "sync_calendars"
           /\ tool_calls' = Tail(tool_calls)
           /\ lastResult'.listed = 0)
             => /\ lastResult'.success
                /\ lastResult'.events_synced = 0
                /\ UNCHANGED <<therapy_appointment, siteBatches>>]_vars

\* sync_calendars found no events and no automation object exists
EmptySyncCalendarsReturned ==
    /\ lastResult.tool = "sync_calendars"
    /\ lastResult.listed = 0
    /\ lastResult.success
    /\ therapy_appointment = "None"
    /\ siteBatches = <<>>

-----------------------------------------------------------------------------
(* Accounting of sync_outlook_to_google (SpecSync)                          *)

\* the add_event calls so far that returned True, and those that did not
OkInserts == SelectSeq(inserts, LAMBDA c : c.ok)

FailedInserts == SelectSeq(inserts, LAMBDA c : ~c.ok)

\* the signature of source event j
SourceSignature(j) == Signature(outlook_events[j].subject, outlook_events[j].start)

\* C22: a failed insertion does not end the copy and counts neither as
\* synced nor as skipped; its signature is not added, so a later source
\* event is skipped only for a signature of the Google listing or of an
\* earlier successful insert; the result has events_synced equal to the
\* number of successful inserts and events_synced + events_skipped <=
\* total_events, with equality exactly when no insert failed.
FailedInsertIsNotCounted ==
    syPc \in {"loop", "done"} /\ (syPc = "done" => syResult.total_events # -1)
        => /\ added_count = Len(OkInserts)
           /\ skipped_count = Cardinality(skipped)
           /\ added_count + skipped_count + Len(FailedInserts) = syIdx - 1
           /\ \A j \in 1..(syIdx - 1) :
                  j \in skipped <=>
                     \/ \E k \in 1..Len(google_events) :
                           Signature(google_events[k].summary,
                                     google_events[k].start) = SourceSignature(j)
                     \/ \E n \in 1..Len(OkInserts) :
                           /\ OkInserts[n].idx < j
                           /\ SourceSignature(OkInserts[n].idx) = SourceSignature(j)
           /\ syPc = "done"
                 => /\ syResult.success
                    /\ syIdx = Len(outlook_events) + 1
                    /\ syResult.events_synced = Len(OkInserts)
                    /\ syResult.events_synced + syResult.events_skipped
                          <= syResult.total_events
                    /\ (syResult.events_synced + syResult.events_skipped
                          = syResult.total_events) <=> FailedInserts = <<>>

\* the insert of the first event failed, the second event has the same
\* signature and was inserted
RetriedAfterFailedInsert ==
    /\ syPc = "done"
    /\ Len(outlook_events) = 2
    /\ SourceSignature(1) = SourceSignature(2)
    /\ inserts = <<[idx |-> 1, ok |-> FALSE], [idx |-> 2, ok |-> TRUE]>>
    /\ syResult.events_synced = 1
    /\ syResult.events_skipped = 0

-----------------------------------------------------------------------------
(* The flag awaiting_selection across script runs (SpecUI)                  *)

\* the assistant messages the step appended to the history
NewAssistantKinds ==
    {messages'[k].kind : k \in {j \in (Len(messages) + 1)..Len(messages') :
                                    messages'[j].role = "assistant"}}

\* C23: awaiting_selection becomes true when an assistant response holds the
\* approval prompt, becomes false when the next typed message is answered
\* with a response that is not the approval prompt, and, once false, stays
\* false over every later run until a new approval prompt is issued or the
\* chat is cleared.
AwaitingSelectionTracksGate ==
    [][/\ ("approval" \in NewAssistantKinds) => awaiting_selection'
       /\ (/\ Len(messages') = Len(messages) + 2
           /\ messages'[Len(messages) + 1] = Message("user", "typed")
           /\ NewAssistantKinds = {"text"}) => ~awaiting_selection'
       /\ (/\ agent # "unset"
           /\ ~awaiting_selection
           /\ "approval" \notin NewAssistantKinds) => ~awaiting_selection']_vars

=============================================================================
